---- MODULE Spec2Model ----
(***************************************************************************)
(* The WAVM runtime intrinsics (Source/Runtime/WAVMIntrinsics.cpp) as a    *)
(* state machine: linear-memory growth and query, the indirect-call trap   *)
(* paths, the trapping float-to-integer conversions, the unconditional     *)
(* traps, float min, max and rounding with their NaN handling, and the     *)
(* debug hooks with their depth counter.                                   *)
(*                                                                         *)
(* Machine integers keep their width.  A machine word is a little-endian   *)
(* sequence of 16-bit limbs: uintp (64-bit host) has 4 limbs, int32 and    *)
(* uint32 have 2, int64 and uint64 have 4.  Claim-side arithmetic that     *)
(* must not wrap is done on 5 limbs.                                       *)
(***************************************************************************)
EXTENDS Integers, Sequences, FiniteSets, TLC

(***************************************************************************)
(* Bounds of the model.                                                    *)
(***************************************************************************)
\* Growth calls that reach the collaborator in one run.
MaxGrows == 2
\* Elements of the indirect-call table.
TableSize == 1
\* Call stacks that share one memory in the concurrent specification.
NumThreads == 2
\* growMemory calls one call stack makes in the concurrent specification.
MaxThreadCalls == 2
\* Calls of the debug hooks in one run.
MaxDebugCalls == 4

(***************************************************************************)
(* Machine words.                                                          *)
(***************************************************************************)
Base == 2^16
HalfBase == 2^15

\* Limbs of a uintp on the 64-bit host, of a 32-bit and of a 64-bit integer,
\* and of the unbounded arithmetic of the claims.
PtrLimbs == 64 \div 16
I32Limbs == 32 \div 16
I64Limbs == 64 \div 16
MathLimbs == PtrLimbs + 1

\* The word of n limbs holding the natural number x < 2^31.
Word(x, n) ==
    [i \in 1..n |-> IF i = 1 THEN x % Base ELSE IF i = 2 THEN x \div Base ELSE 0]

\* The word of n limbs holding 2^k.
Pow2(k, n) ==
    [i \in 1..n |-> IF i = (k \div 16) + 1 THEN 2^(k % 16) ELSE 0]

RECURSIVE Carry(_, _, _)
\* The carry out of limb i when a and b are added.
Carry(a, b, i) ==
    IF i = 0 THEN 0 ELSE (a[i] + b[i] + Carry(a, b, i - 1)) \div Base

\* a + b in the width of a: the carry out of the top limb is dropped.
AddW(a, b) ==
    [i \in 1..Len(a) |-> (a[i] + b[i] + Carry(a, b, i - 1)) % Base]

RECURSIVE Cmp(_, _, _)
\* Unsigned comparison of the low i limbs of a and b: -1, 0 or 1.
Cmp(a, b, i) ==
    IF i = 0 THEN 0
    ELSE IF a[i] > b[i] THEN 1
    ELSE IF a[i] < b[i] THEN -1
    ELSE Cmp(a, b, i - 1)

Gt(a, b) == Cmp(a, b, Len(a)) = 1
Le(a, b) == Cmp(a, b, Len(a)) # 1
Lt(a, b) == Cmp(a, b, Len(a)) = -1

\* Whether the top bit of a word is set.
TopBit(a) == a[Len(a)] >= HalfBase

\* Widening to n limbs: of an unsigned word, and of a signed one.
ZeroExtend(a, n) == [i \in 1..n |-> IF i <= Len(a) THEN a[i] ELSE 0]
SignExtend(a, n) ==
    [i \in 1..n |-> IF i <= Len(a) THEN a[i] ELSE IF TopBit(a) THEN Base - 1 ELSE 0]

\* Narrowing to the low n limbs.
Truncate(a, n) == [i \in 1..n |-> a[i]]

\* Two's complement negation in the width of a.
Negate(a) == AddW([i \in 1..Len(a) |-> (Base - 1) - a[i]], Word(1, Len(a)))

\* The int32 a 2-limb word holds, as an integer.
ToInt32(a) ==
    IF TopBit(a) THEN (a[2] - Base) * Base + a[1] ELSE a[2] * Base + a[1]

\* The literal -1 of type int32.
MinusOne32 == [i \in 1..I32Limbs |-> Base - 1]

(***************************************************************************)
(* Exception causes and the record of one invocation.                      *)
(***************************************************************************)
invalidFloatOperation == "invalidFloatOperation"
integerDivideByZeroOrIntegerOverflow == "integerDivideByZeroOrIntegerOverflow"
reachedUnreachable == "reachedUnreachable"
undefinedTableElement == "undefinedTableElement"
indirectCallSignatureMismatch_ == "indirectCallSignatureMismatch"

\* Ceiling of a linear memory, in pages.
MaxPages == 65536
MaxPagesPtr == Word(MaxPages, PtrLimbs)

\* An invocation that has just been entered: nothing returned, nothing raised.
\* live: control is still inside the intrinsic; mem: MemoryInstance::numPages;
\* grown: the arguments of each call made to the growth collaborator;
\* reads: the table indices dereferenced; casts: the casts (Dest)x performed;
\* called: the intrinsics entered.
Enter(mem) ==
    [live |-> TRUE, returned |-> FALSE, ret |-> <<>>, traps |-> <<>>,
     mem |-> mem, grown |-> <<>>, reads |-> {}, casts |-> 0, called |-> <<>>]

\* DEFINE_INTRINSIC_FUNCTION: control enters the intrinsic of that name.
Intrinsic(o, name) == [o EXCEPT !.called = Append(@, name)]

\* A return statement: hands v to the caller and leaves the intrinsic.
Return(o, v) ==
    IF o.live THEN [o EXCEPT !.returned = TRUE, !.ret = v, !.live = FALSE] ELSE o

\* Runtime::causeException: unwinds to the trap handler, never returns.
causeException(o, cause) ==
    IF o.live THEN [o EXCEPT !.traps = Append(@, cause), !.live = FALSE] ELSE o

(***************************************************************************)
(* Linear memory.                                                          *)
(***************************************************************************)
\* Runtime::growMemory(memory, numNewPages): grows the memory and returns the
\* previous page count.
growMemory(o, numNewPages) ==
    [o EXCEPT !.mem = AddW(o.mem, numNewPages),
              !.grown = Append(@, numNewPages),
              !.ret = o.mem]

\* Runtime::getMemoryNumPages(memory).
getMemoryNumPages(o) == o.mem

\* CeilingExceeded with >= for >: a growth to exactly 65536 pages is refused.
CeilingExceededInclusive(mem, deltaPages) ==
    ~Lt(AddW(mem, SignExtend(deltaPages, PtrLimbs)), MaxPagesPtr)

\* The ceiling test of _growMemory: numPages + (uintp)deltaPages > 65536, in uintp.
CeilingExceeded(mem, deltaPages) ==
    Gt(AddW(mem, SignExtend(deltaPages, PtrLimbs)), MaxPagesPtr)

\* The if of _growMemory: the ceiling test and the failure it returns.
_growMemoryCheck(o, deltaPages) ==
    IF CeilingExceeded(o.mem, deltaPages) THEN Return(o, MinusOne32) ELSE o

\* The else of _growMemory: the call of the collaborator, whose result is
\* returned as an int32.
_growMemoryGrow(o, deltaPages) ==
    LET g == growMemory(o, SignExtend(deltaPages, PtrLimbs))
    IN  Return(g, Truncate(g.ret, I32Limbs))

\* wavmIntrinsics.growMemory(i32 deltaPages, i64 memoryBits) -> i32
_growMemory(o, deltaPages) ==
    LET checked == _growMemoryCheck(Intrinsic(o, "growMemory"), deltaPages)
    IN  IF checked.live THEN _growMemoryGrow(checked, deltaPages) ELSE checked

\* _currentMemory with >= for >: a memory of exactly 65536 pages reads as -1.
_currentMemoryInclusive(o) ==
    LET e == Intrinsic(o, "currentMemory")
    IN  IF ~Lt(e.mem, MaxPagesPtr)
        THEN Return(e, MinusOne32)
        ELSE Return(e, Truncate(getMemoryNumPages(e), I32Limbs))

\* wavmIntrinsics.currentMemory(i64 memoryBits) -> i32
_currentMemory(o) ==
    LET e == Intrinsic(o, "currentMemory")
    IN  IF Gt(e.mem, MaxPagesPtr)
        THEN Return(e, MinusOne32)
        ELSE Return(e, Truncate(getMemoryNumPages(e), I32Limbs))

(***************************************************************************)
(* Floating-point values.  A float32 or float64 is a NaN, an infinity or a *)
(* finite value (-1)^neg * (whole + half/2), whole a natural number below  *)
(* 2^80 held in MathLimbs limbs.                                           *)
(***************************************************************************)
NaN == [kind |-> "nan", neg |-> FALSE, whole |-> Word(0, MathLimbs), half |-> 0]
Infinity(neg) == [kind |-> "inf", neg |-> neg, whole |-> Word(0, MathLimbs), half |-> 0]
Finite(neg, whole, half) == [kind |-> "fin", neg |-> neg, whole |-> whole, half |-> half]

RECURSIVE BitLength(_)
\* Bits needed to write the natural number x.
BitLength(x) == IF x = 0 THEN 0 ELSE 1 + BitLength(x \div 2)

RECURSIVE TrailingZeros(_)
\* Zero bits below the lowest set bit of x > 0.
TrailingZeros(x) == IF x % 2 = 1 THEN 0 ELSE 1 + TrailingZeros(x \div 2)

\* Position (from 0) of the highest and of the lowest set bit of a word # 0.
HighestBit(a) ==
    LET i == CHOOSE j \in 1..Len(a) : a[j] # 0 /\ \A k \in (j + 1)..Len(a) : a[k] = 0
    IN  16 * (i - 1) + BitLength(a[i]) - 1
LowestBit(a) ==
    LET i == CHOOSE j \in 1..Len(a) : a[j] # 0 /\ \A k \in 1..(j - 1) : a[k] = 0
    IN  16 * (i - 1) + TrailingZeros(a[i])

\* Whether a value is one a float with the given number of significand bits
\* (24 for float32, 53 for float64) holds.
Representable(v, significandBits) ==
    \/ v.kind # "fin"
    \/ v.whole = Word(0, MathLimbs)
    \/ HighestBit(v.whole) - (IF v.half = 1 THEN -1 ELSE LowestBit(v.whole)) + 1
          <= significandBits

\* value != value
IsNaN(v) == v.kind = "nan"

IsZero(v) == v.kind = "fin" /\ v.whole = Word(0, MathLimbs) /\ v.half = 0

\* Comparison of the magnitudes of two values that are not NaN: -1, 0 or 1.
CompareMagnitude(a, b) ==
    IF a.kind = "inf" THEN (IF b.kind = "inf" THEN 0 ELSE 1)
    ELSE IF b.kind = "inf" THEN -1
    ELSE LET c == Cmp(a.whole, b.whole, MathLimbs)
         IN  IF c # 0 THEN c
             ELSE IF a.half > b.half THEN 1
             ELSE IF a.half < b.half THEN -1
             ELSE 0

\* Comparison of two values that are not NaN; -0.0 and +0.0 compare equal.
Compare(a, b) ==
    LET na == a.neg /\ ~IsZero(a)
        nb == b.neg /\ ~IsZero(b)
    IN  IF na /\ ~nb THEN -1
        ELSE IF ~na /\ nb THEN 1
        ELSE IF na THEN -CompareMagnitude(a, b)
        ELSE CompareMagnitude(a, b)

\* The comparison operators of C++: false when an operand is a NaN.
FloatLt(a, b) == ~IsNaN(a) /\ ~IsNaN(b) /\ Compare(a, b) < 0
FloatLe(a, b) == ~IsNaN(a) /\ ~IsNaN(b) /\ Compare(a, b) <= 0
FloatGe(a, b) == ~IsNaN(a) /\ ~IsNaN(b) /\ Compare(a, b) >= 0

\* (Dest)sourceValue for a finite value whose truncation Dest holds: the
\* fraction is dropped and the integer written in two's complement.
CastToInt(v, limbs) ==
    IF v.neg THEN Negate(Truncate(v.whole, limbs)) ELSE Truncate(v.whole, limbs)

(***************************************************************************)
(* Trapping conversions.                                                   *)
(***************************************************************************)
\* floatToInt that casts before it tests: the cast is made on every input.
floatToIntCastFirst(o, limbs, isMinInclusive, sourceValue, minValue, maxValue) ==
    LET cast == [o EXCEPT !.casts = @ + 1]
    IN  IF IsNaN(sourceValue)
        THEN causeException(cast, invalidFloatOperation)
        ELSE IF \/ FloatGe(sourceValue, maxValue)
                \/ (IF isMinInclusive THEN FloatLe(sourceValue, minValue)
                                      ELSE FloatLt(sourceValue, minValue))
        THEN causeException(cast, integerDivideByZeroOrIntegerOverflow)
        ELSE Return(cast, CastToInt(sourceValue, limbs))

\* floatToInt<Dest,Source,isMinInclusive>(sourceValue, minValue, maxValue)
floatToInt(o, limbs, isMinInclusive, sourceValue, minValue, maxValue) ==
    LET checked ==
            IF IsNaN(sourceValue)
            THEN causeException(o, invalidFloatOperation)
            ELSE IF \/ FloatGe(sourceValue, maxValue)
                    \/ (IF isMinInclusive THEN FloatLe(sourceValue, minValue)
                                          ELSE FloatLt(sourceValue, minValue))
            THEN causeException(o, integerDivideByZeroOrIntegerOverflow)
            ELSE o
    IN  IF checked.live
        THEN Return([checked EXCEPT !.casts = @ + 1], CastToInt(sourceValue, limbs))
        ELSE checked

\* (float)INT32_MIN, -(float)INT32_MIN, (float)INT64_MIN, -(float)INT64_MIN,
\* -1.0, -2.0 * INT32_MIN and -2.0 * INT64_MIN: the same values in float32 and
\* in float64.
FloatInt32Min == Finite(TRUE, Pow2(31, MathLimbs), 0)
NegFloatInt32Min == Finite(FALSE, Pow2(31, MathLimbs), 0)
FloatInt64Min == Finite(TRUE, Pow2(63, MathLimbs), 0)
NegFloatInt64Min == Finite(FALSE, Pow2(63, MathLimbs), 0)
MinusOne == Finite(TRUE, Word(1, MathLimbs), 0)
MinusTwoTimesInt32Min == Finite(FALSE, Pow2(32, MathLimbs), 0)
MinusTwoTimesInt64Min == Finite(FALSE, Pow2(64, MathLimbs), 0)

\* floatToSignedInt whose lower bound is inclusive, as that of the unsigned
\* conversions is.
floatToSignedIntMinInclusive(o, limbs, source) ==
    LET e == Intrinsic(o, "floatToSignedInt")
    IN  IF limbs = I32Limbs
        THEN floatToInt(e, I32Limbs, TRUE, source, FloatInt32Min, NegFloatInt32Min)
        ELSE floatToInt(e, I64Limbs, TRUE, source, FloatInt64Min, NegFloatInt64Min)

\* wavmIntrinsics.floatToSignedInt: (f32)->i32, (f64)->i32, (f32)->i64, (f64)->i64
floatToSignedInt(o, limbs, source) ==
    LET e == Intrinsic(o, "floatToSignedInt")
    IN  IF limbs = I32Limbs
        THEN floatToInt(e, I32Limbs, FALSE, source, FloatInt32Min, NegFloatInt32Min)
        ELSE floatToInt(e, I64Limbs, FALSE, source, FloatInt64Min, NegFloatInt64Min)

\* wavmIntrinsics.floatToUnsignedInt: the same four widths.
floatToUnsignedInt(o, limbs, source) ==
    LET e == Intrinsic(o, "floatToUnsignedInt")
    IN  IF limbs = I32Limbs
        THEN floatToInt(e, I32Limbs, TRUE, source, MinusOne, MinusTwoTimesInt32Min)
        ELSE floatToInt(e, I64Limbs, TRUE, source, MinusOne, MinusTwoTimesInt64Min)

\* Bit i (from 0) of a word.
BitOf(a, i) == (a[(i \div 16) + 1] \div 2^(i % 16)) % 2

\* A word with its bits below bit k cleared.
ClearBelow(a, k) ==
    [j \in 1..Len(a) |->
        IF 16 * j <= k THEN 0
        ELSE IF 16 * (j - 1) >= k THEN a[j]
        ELSE a[j] - (a[j] % 2^(k - 16 * (j - 1)))]

\* The natural number of a word rounded to a float's significand (24 bits in
\* float32, 53 in float64, the implicit bit counted) to nearest, ties to even.
RoundToSignificand(a, significandBits) ==
    IF a = [j \in 1..Len(a) |-> 0] \/ HighestBit(a) < significandBits
    THEN a
    ELSE LET k == HighestBit(a) + 1 - significandBits
             half == BitOf(a, k - 1) = 1
             more == \E i \in 0..(k - 2) : BitOf(a, i) = 1
             odd == BitOf(a, k) = 1
         IN  IF half /\ (more \/ odd)
             THEN AddW(ClearBelow(a, k), Pow2(k, Len(a)))
             ELSE ClearBelow(a, k)

\* The conversion of an integer of the given width and signedness to a float:
\* compiled code's convert, which rounds to nearest.
convertIntToFloat(integer, signed, significandBits) ==
    LET negative == signed /\ TopBit(integer)
        magnitude == ZeroExtend(IF negative THEN Negate(integer) ELSE integer,
                                MathLimbs)
    IN  Finite(negative, RoundToSignificand(magnitude, significandBits), 0)

(***************************************************************************)
(* Unconditional traps.                                                    *)
(***************************************************************************)
\* wavmIntrinsics.divideByZeroTrap
divideByZeroTrap(o) ==
    causeException(Intrinsic(o, "divideByZeroTrap"), integerDivideByZeroOrIntegerOverflow)

\* wavmIntrinsics.unreachableTrap
unreachableTrap(o) ==
    causeException(Intrinsic(o, "unreachableTrap"), reachedUnreachable)

(***************************************************************************)
(* Indirect calls.  A table is a sequence of elements, each a code pointer *)
(* (value) and a FunctionType pointer (type); index i is element i + 1.    *)
(***************************************************************************)
nullptr == "nullptr"

\* FunctionType: ordered parameter types and a result type.  Pointers to
\* FunctionType are equal exactly when the types are structurally equal.
NullType == [null |-> TRUE, parameters |-> <<>>, ret |-> "none"]
FunctionType(parameters, ret) == [null |-> FALSE, parameters |-> parameters, ret |-> ret]

InRange(tbl, index) == 0 <= index /\ index < Len(tbl)

\* What lies beyond the table's elements: a read there is out of bounds.
OutOfBounds == [value |-> "out of bounds", type |-> NullType]

\* table->baseAddress[index]
ElementAt(tbl, index) == IF InRange(tbl, index) THEN tbl[index + 1] ELSE OutOfBounds

\* indirectCallSignatureMismatch that looks at the element's type pointer for
\* the element's code pointer.
indirectCallSignatureMismatchByType(o, tbl, index, expectedSignature) ==
    LET e == Intrinsic(o, "indirectCallSignatureMismatch")
        actualSignature == ElementAt(tbl, index).type
        read == [e EXCEPT !.reads = @ \cup {index}]
    IN  causeException(read, IF actualSignature = NullType
                             THEN undefinedTableElement
                             ELSE indirectCallSignatureMismatch_)

\* wavmIntrinsics.indirectCallSignatureMismatch(i32 index, i64 expectedSignatureBits,
\* i64 tableBits): reads the element, logs it and raises the cause.
indirectCallSignatureMismatch(o, tbl, index, expectedSignature) ==
    LET e == Intrinsic(o, "indirectCallSignatureMismatch")
        elementValue == ElementAt(tbl, index).value
        read == [e EXCEPT !.reads = @ \cup {index}]
    IN  causeException(read, IF elementValue = nullptr
                             THEN undefinedTableElement
                             ELSE indirectCallSignatureMismatch_)

\* indirectCallIndexOutOfBounds that raises the cause of a signature mismatch.
indirectCallIndexOutOfBoundsAsMismatch(o) ==
    causeException(Intrinsic(o, "indirectCallIndexOutOfBounds"),
                   indirectCallSignatureMismatch_)

\* wavmIntrinsics.indirectCallIndexOutOfBounds
indirectCallIndexOutOfBounds(o) ==
    causeException(Intrinsic(o, "indirectCallIndexOutOfBounds"), undefinedTableElement)

\* The compiled call_indirect site: traps through indirectCallIndexOutOfBounds
\* when the index is out of range, through indirectCallSignatureMismatch when
\* the element is unfilled or of another signature, and otherwise goes on to
\* the call without entering an intrinsic.
callIndirect(o, tbl, index, expectedSignature) ==
    IF ~InRange(tbl, index)
    THEN indirectCallIndexOutOfBounds(o)
    ELSE LET element == tbl[index + 1]
             read == [o EXCEPT !.reads = @ \cup {index}]
         IN  IF element.value = nullptr \/ element.type # expectedSignature
             THEN indirectCallSignatureMismatch(read, tbl, index, expectedSignature)
             ELSE read

(***************************************************************************)
(* Bit patterns of floats.  Floats::FloatComponents<Float> is a sign bit,  *)
(* the exponent bits and the significand bits; the significand is kept as  *)
(* its bits, lowest first.                                                 *)
(***************************************************************************)
\* FloatComponents<Float>::numSignificandBits, and the exponent bits beside it.
numSignificandBits(width) == IF width = 32 THEN 23 ELSE 52
numExponentBits(width) == width - 1 - numSignificandBits(width)
maxExponentBits(width) == 2^numExponentBits(width) - 1
exponentBias(width) == 2^(numExponentBits(width) - 1) - 1

FloatComponents(width, sign, exponent, significand) ==
    [width |-> width, sign |-> sign, exponent |-> exponent,
     significand |-> significand]

\* The significand of the given width whose set bits are those numbered (from
\* 0) in positions.
Significand(width, positions) ==
    [i \in 1..numSignificandBits(width) |-> IF (i - 1) \in positions THEN 1 ELSE 0]

\* value != value: the exponent is all ones and the significand is not zero.
BitsIsNaN(f) ==
    /\ f.exponent = maxExponentBits(f.width)
    /\ \E i \in DOMAIN f.significand : f.significand[i] = 1

BitsIsZero(f) ==
    /\ f.exponent = 0
    /\ \A i \in DOMAIN f.significand : f.significand[i] = 0

RECURSIVE CompareBitsFrom(_, _, _)
\* Unsigned comparison of the bits i, i - 1, ..., 1 of a and b: -1, 0 or 1.
CompareBitsFrom(a, b, i) ==
    IF i = 0 THEN 0
    ELSE IF a[i] > b[i] THEN 1
    ELSE IF a[i] < b[i] THEN -1
    ELSE CompareBitsFrom(a, b, i - 1)

\* Comparison of exponent and significand as one unsigned integer.
BitsCompareMagnitude(a, b) ==
    IF a.exponent > b.exponent THEN 1
    ELSE IF a.exponent < b.exponent THEN -1
    ELSE CompareBitsFrom(a.significand, b.significand, Len(a.significand))

\* Comparison of the values of two floats that are not NaN; -0.0 and +0.0
\* compare equal.
BitsCompare(a, b) ==
    LET na == a.sign = 1 /\ ~BitsIsZero(a)
        nb == b.sign = 1 /\ ~BitsIsZero(b)
    IN  IF na /\ ~nb THEN -1
        ELSE IF ~na /\ nb THEN 1
        ELSE IF na THEN -BitsCompareMagnitude(a, b)
        ELSE BitsCompareMagnitude(a, b)

\* left < right and left > right of C++: false when an operand is a NaN.
LessThan(a, b) == ~BitsIsNaN(a) /\ ~BitsIsNaN(b) /\ BitsCompare(a, b) < 0
GreaterThan(a, b) == ~BitsIsNaN(a) /\ ~BitsIsNaN(b) /\ BitsCompare(a, b) > 0

\* Comparison of the bit patterns as signed integers of the float's width.
bitcastIntCompareSigned(a, b) ==
    IF a.sign > b.sign THEN -1
    ELSE IF a.sign < b.sign THEN 1
    ELSE BitsCompareMagnitude(a, b)

\* Comparison of FloatComponents::bitcastInt of a and b, an unsigned integer
\* of the float's width whose top bit is the sign: -1, 0 or 1.
bitcastIntCompare(a, b) ==
    IF a.sign > b.sign THEN 1
    ELSE IF a.sign < b.sign THEN -1
    ELSE BitsCompareMagnitude(a, b)

\* quietNaN that returns the default NaN: positive, top significand bit only.
quietNaNDefault(value) ==
    FloatComponents(value.width, 0, maxExponentBits(value.width),
                    Significand(value.width, {numSignificandBits(value.width) - 1}))

\* Runtime::quietNaN: sets the top bit of the significand.
quietNaN(value) ==
    [value EXCEPT !.significand[numSignificandBits(value.width)] = 1]

\* Runtime::floatMin
floatMin(o, left, right) ==
    LET e == Intrinsic(o, "floatMin")
    IN  IF BitsIsNaN(left) THEN Return(e, quietNaN(left))
        ELSE IF BitsIsNaN(right) THEN Return(e, quietNaN(right))
        ELSE IF LessThan(left, right) THEN Return(e, left)
        ELSE IF LessThan(right, left) THEN Return(e, right)
        ELSE Return(e, IF bitcastIntCompare(left, right) < 0 THEN right ELSE left)

\* Runtime::floatMax
floatMax(o, left, right) ==
    LET e == Intrinsic(o, "floatMax")
    IN  IF BitsIsNaN(left) THEN Return(e, quietNaN(left))
        ELSE IF BitsIsNaN(right) THEN Return(e, quietNaN(right))
        ELSE IF GreaterThan(left, right) THEN Return(e, left)
        ELSE IF GreaterThan(right, left) THEN Return(e, right)
        ELSE Return(e, IF bitcastIntCompare(left, right) > 0 THEN right ELSE left)

\* The exponent of a float without its bias.
Unbiased(f) == f.exponent - exponentBias(f.width)

\* Fraction bits of a float not below 1 in magnitude and below
\* 2^numSignificandBits: the low bits of the significand that weigh less
\* than 1.
FractionBits(f) == numSignificandBits(f.width) - Unbiased(f)

\* Whether a float has no fraction: an infinity, a zero, or a magnitude that
\* is a whole number.
IsWhole(f) ==
    \/ f.exponent = maxExponentBits(f.width)
    \/ BitsIsZero(f)
    \/ Unbiased(f) >= numSignificandBits(f.width)
    \/ /\ Unbiased(f) >= 0
       /\ \A i \in 1..FractionBits(f) : f.significand[i] = 0

\* +1.0 or -1.0, and +0.0 or -0.0, of the width and sign of f.
OneLike(f) ==
    FloatComponents(f.width, f.sign, exponentBias(f.width), Significand(f.width, {}))
ZeroLike(f) ==
    FloatComponents(f.width, f.sign, 0, Significand(f.width, {}))

\* The float toward zero from f that is a whole number: the fraction bits
\* are cleared.
TowardZero(f) ==
    IF IsWhole(f) THEN f
    ELSE IF Unbiased(f) < 0 THEN ZeroLike(f)
    ELSE [f EXCEPT !.significand =
            [i \in DOMAIN @ |-> IF i <= FractionBits(f) THEN 0 ELSE @[i]]]

\* The float away from zero from f that is a whole number, f having a
\* fraction: one more than TowardZero(f) in magnitude, the carry running
\* from the lowest whole bit of the significand up into the exponent.
AwayFromZero(f) ==
    IF Unbiased(f) < 0 THEN OneLike(f)
    ELSE LET k == FractionBits(f)
             p == numSignificandBits(f.width)
             zeros == {j \in (k + 1)..p : f.significand[j] = 0}
         IN  IF zeros = {}
             THEN FloatComponents(f.width, f.sign, f.exponent + 1,
                                  Significand(f.width, {}))
             ELSE LET j == CHOOSE z \in zeros : \A y \in zeros : z <= y
                  IN  [f EXCEPT !.significand =
                          [i \in DOMAIN @ |->
                              IF i < j THEN 0 ELSE IF i = j THEN 1 ELSE @[i]]]

\* Whether the fraction of f, which has one, is above a half, or is a half
\* with an odd whole part: nearbyint in the default rounding mode, to
\* nearest and ties to even, then rounds away from zero.
RoundsAway(f) ==
    LET k == FractionBits(f)
        p == numSignificandBits(f.width)
    IN  IF Unbiased(f) < -1 THEN FALSE
        ELSE IF Unbiased(f) = -1
        THEN \E i \in DOMAIN f.significand : f.significand[i] = 1
        ELSE /\ f.significand[k] = 1
             /\ \/ \E i \in 1..(k - 1) : f.significand[i] = 1
                \/ (IF k = p THEN TRUE ELSE f.significand[k + 1] = 1)

\* ceil, floor, trunc and nearbyint of <math.h> on a float that is not a NaN.
ceil(f) ==
    IF IsWhole(f) \/ f.sign = 1 THEN TowardZero(f) ELSE AwayFromZero(f)
floor(f) ==
    IF IsWhole(f) \/ f.sign = 0 THEN TowardZero(f) ELSE AwayFromZero(f)
trunc(f) == TowardZero(f)
nearbyint(f) ==
    IF IsWhole(f) \/ ~RoundsAway(f) THEN TowardZero(f) ELSE AwayFromZero(f)

\* Runtime::floatCeil
floatCeil(o, value) ==
    LET e == Intrinsic(o, "floatCeil")
    IN  IF BitsIsNaN(value) THEN Return(e, quietNaN(value)) ELSE Return(e, ceil(value))

\* Runtime::floatFloor
floatFloor(o, value) ==
    LET e == Intrinsic(o, "floatFloor")
    IN  IF BitsIsNaN(value) THEN Return(e, quietNaN(value)) ELSE Return(e, floor(value))

\* Runtime::floatTrunc
floatTrunc(o, value) ==
    LET e == Intrinsic(o, "floatTrunc")
    IN  IF BitsIsNaN(value) THEN Return(e, quietNaN(value)) ELSE Return(e, trunc(value))

\* Runtime::floatNearest
floatNearest(o, value) ==
    LET e == Intrinsic(o, "floatNearest")
    IN  IF BitsIsNaN(value) THEN Return(e, quietNaN(value))
        ELSE Return(e, nearbyint(value))

(***************************************************************************)
(* Debug hooks.  A hook works on the depth counter and on the log, given   *)
(* here as a record of the two.                                            *)
(***************************************************************************)
\* Log::printf(Log::Category::debug, ...): one more line, kept with the value
\* the depth counter has while it is printed.
printf(d, text, debugName) ==
    [d EXCEPT !.debugLog =
        Append(@, [text |-> text, debugName |-> debugName, level |-> d.indentLevel])]

\* debugExitFunction that prints before it decrements.
debugExitFunctionPrintFirst(d, debugName) ==
    LET printed == printf(d, "EXIT", debugName)
    IN  [printed EXCEPT !.indentLevel = AddW(@, [i \in 1..PtrLimbs |-> Base - 1])]

\* wavmIntrinsics.debugEnterFunction: prints, then ++indentLevel.
debugEnterFunction(d, debugName) ==
    LET printed == printf(d, "ENTER", debugName)
    IN  [printed EXCEPT !.indentLevel = AddW(@, Word(1, PtrLimbs))]

\* wavmIntrinsics.debugExitFunction: --indentLevel in the width of a uintp,
\* then prints.
debugExitFunction(d, debugName) ==
    LET decremented ==
            [d EXCEPT !.indentLevel = AddW(@, [i \in 1..PtrLimbs |-> Base - 1])]
    IN  printf(decremented, "EXIT", debugName)

\* wavmIntrinsics.debugBreak
debugBreak(d) == printf(d, "debugBreak", "")

(***************************************************************************)
(* State.                                                                  *)
(***************************************************************************)
VARIABLES
    numPages,   \* MemoryInstance::numPages of the one linear memory, a uintp
    table,      \* the elements of the one indirect-call table
    grows,      \* calls that reached the growth collaborator so far
    last,       \* the most recent invocation: its operands and what it did
    threads,    \* per call stack of the concurrent specification: where it is
                \* in _growMemory, its operand, what it got and the page count
                \* its growth started from
    granted,    \* the pages the memory was created with plus every deltaPages
                \* of a growMemory call that did not fail, without wrap-around
    indentLevel,\* the process-wide depth counter of the debug hooks, a uintp
    debugLog    \* what the debug hooks printed so far, oldest first, each
                \* line with the value indentLevel had when it was printed

vars == <<numPages, table, grows, last, threads, granted, indentLevel, debugLog>>

\* deltaPages operands: 0, 1, 65535, 65536, 0x7FFFFFFF, 0x80000000,
\* 0xFFFF0000 and 0xFFFFFFFF.
Deltas ==
    {Word(0, I32Limbs), Word(1, I32Limbs), Word(65535, I32Limbs),
     Word(MaxPages, I32Limbs), <<Base - 1, HalfBase - 1>>, <<0, HalfBase>>,
     <<0, Base - 1>>, MinusOne32}

\* Page counts a memory is created with: within the ceiling.
InitialPages ==
    {Word(0, PtrLimbs), Word(1, PtrLimbs), Word(MaxPages - 1, PtrLimbs), MaxPagesPtr}

\* Page counts above the ceiling that a host may have recorded: 65537, 2^32 + 5
\* and 2^64 - 1.
OverflowedPages ==
    {Word(MaxPages + 1, PtrLimbs), <<5, 0, 1, 0>>, [i \in 1..PtrLimbs |-> Base - 1]}

\* Signatures: (i32)->(), (i32,i32)->() and (i64)->().
Signatures ==
    {FunctionType(<<"i32">>, "none"), FunctionType(<<"i32", "i32">>, "none"),
     FunctionType(<<"i64">>, "none")}

\* Table elements: never set, a null code pointer beside a type, and functions
\* of the first two signatures.
Elements ==
    {[value |-> nullptr, type |-> NullType],
     [value |-> nullptr, type |-> FunctionType(<<"i32">>, "none")],
     [value |-> "code", type |-> FunctionType(<<"i32">>, "none")],
     [value |-> "code", type |-> FunctionType(<<"i32", "i32">>, "none")]}

\* Magnitudes of the finite operands of the conversions: whole part and half.
\* 0, 0.5, 1, 1.5, then around 2^31, 2^32, 2^63 and 2^64 the neighbours in
\* float32 and in float64.
Magnitudes ==
    {<<Word(0, MathLimbs), 0>>, <<Word(0, MathLimbs), 1>>,
     <<Word(1, MathLimbs), 0>>, <<Word(1, MathLimbs), 1>>,
     <<<<65408, 32767, 0, 0, 0>>, 0>>,          \* 2^31 - 128
     <<<<65535, 32767, 0, 0, 0>>, 0>>,          \* 2^31 - 1
     <<<<65535, 32767, 0, 0, 0>>, 1>>,          \* 2^31 - 0.5
     <<Pow2(31, MathLimbs), 0>>,                \* 2^31
     <<Pow2(31, MathLimbs), 1>>,                \* 2^31 + 0.5
     <<<<1, 32768, 0, 0, 0>>, 0>>,              \* 2^31 + 1
     <<<<256, 32768, 0, 0, 0>>, 0>>,            \* 2^31 + 256
     <<<<65280, 65535, 0, 0, 0>>, 0>>,          \* 2^32 - 256
     <<<<65535, 65535, 0, 0, 0>>, 0>>,          \* 2^32 - 1
     <<<<65535, 65535, 0, 0, 0>>, 1>>,          \* 2^32 - 0.5
     <<Pow2(32, MathLimbs), 0>>,                \* 2^32
     <<<<0, 0, 65408, 32767, 0>>, 0>>,          \* 2^63 - 2^39
     <<<<64512, 65535, 65535, 32767, 0>>, 0>>,  \* 2^63 - 1024
     <<Pow2(63, MathLimbs), 0>>,                \* 2^63
     <<<<2048, 0, 0, 32768, 0>>, 0>>,           \* 2^63 + 2048
     <<<<0, 0, 256, 32768, 0>>, 0>>,            \* 2^63 + 2^40
     <<<<0, 0, 65280, 65535, 0>>, 0>>,          \* 2^64 - 2^40
     <<<<63488, 65535, 65535, 65535, 0>>, 0>>,  \* 2^64 - 2048
     <<Pow2(64, MathLimbs), 0>>}                \* 2^64

FloatValues ==
    {NaN, Infinity(FALSE), Infinity(TRUE)}
        \cup {Finite(neg, m[1], m[2]) : neg \in BOOLEAN, m \in Magnitudes}

\* The operands a float32 and a float64 hold: 24 and 53 significand bits.
Float32Values == {v \in FloatValues : Representable(v, 24)}
Float64Values == {v \in FloatValues : Representable(v, 53)}
FloatsOf(bits) == IF bits = 32 THEN Float32Values ELSE Float64Values

\* Bit patterns of the operands of the float intrinsics, of one width: both
\* signs of 0, the least denormal, 0.5, 0.75, 1, 1.5, 2.5, 3.5, the greatest
\* float with a fraction and infinity, and NaNs that are signalling with
\* payload 1, quiet with no payload, quiet with payload 1 and signalling with
\* two payload bits.
FloatPatterns(width) ==
    LET p == numSignificandBits(width)
        bias == exponentBias(width)
        magnitudes ==
            {<<0, {}>>, <<0, {0}>>, <<bias - 1, {}>>, <<bias - 1, {p - 1}>>,
             <<bias, {}>>, <<bias, {p - 1}>>, <<bias + 1, {p - 2}>>,
             <<bias + 1, {p - 1, p - 2}>>, <<bias + p - 1, 0..(p - 1)>>,
             <<maxExponentBits(width), {}>>,
             <<maxExponentBits(width), {0}>>,
             <<maxExponentBits(width), {p - 1}>>,
             <<maxExponentBits(width), {p - 1, 0}>>,
             <<maxExponentBits(width), {p - 2, 1}>>}
    IN  {FloatComponents(width, sign, m[1], Significand(width, m[2])) :
            sign \in {0, 1}, m \in magnitudes}

Float32Patterns == FloatPatterns(32)
Float64Patterns == FloatPatterns(64)
PatternsOf(width) == IF width = 32 THEN Float32Patterns ELSE Float64Patterns

NoCall ==
    [op |-> "none", before |-> Word(0, PtrLimbs), delta |-> Word(0, I32Limbs),
     source |-> NaN, sourceBits |-> 0, limbs |-> 0,
     index |-> 0, expected |-> NullType,
     left |-> ZeroLike([width |-> 32, sign |-> 0]),
     right |-> ZeroLike([width |-> 32, sign |-> 0]),
     integer |-> <<>>,
     out |-> Enter(Word(0, PtrLimbs))]

NoThreads ==
    [t \in 1..NumThreads |->
        [pc |-> "idle", calls |-> 0, delta |-> Word(0, I32Limbs),
         ret |-> <<>>, held |-> Word(0, PtrLimbs)]]

\* A memory within its ceiling, one call stack.
Init ==
    /\ numPages \in InitialPages
    /\ table = <<>>
    /\ grows = 0
    /\ last = NoCall
    /\ threads = NoThreads
    /\ granted = ZeroExtend(numPages, MathLimbs)
    /\ indentLevel = Word(0, PtrLimbs)
    /\ debugLog = <<>>

\* A memory whose page count is whatever has been recorded, one call stack.
InitRecorded ==
    /\ numPages \in InitialPages \cup OverflowedPages
    /\ table = <<>>
    /\ grows = 0
    /\ last = NoCall
    /\ threads = NoThreads
    /\ granted = ZeroExtend(numPages, MathLimbs)
    /\ indentLevel = Word(0, PtrLimbs)
    /\ debugLog = <<>>

\* A table as instantiation left it.
InitTraps ==
    /\ numPages = Word(0, PtrLimbs)
    /\ table \in [1..TableSize -> Elements]
    /\ grows = 0
    /\ last = NoCall
    /\ threads = NoThreads
    /\ granted = ZeroExtend(numPages, MathLimbs)
    /\ indentLevel = Word(0, PtrLimbs)
    /\ debugLog = <<>>

\* No memory grown, no table: the float intrinsics read neither.
InitFloats ==
    /\ numPages = Word(0, PtrLimbs)
    /\ table = <<>>
    /\ grows = 0
    /\ last = NoCall
    /\ threads = NoThreads
    /\ granted = ZeroExtend(numPages, MathLimbs)
    /\ indentLevel = Word(0, PtrLimbs)
    /\ debugLog = <<>>

\* A trap has unwound the call stack: its compiled code runs no further.
Trapped == last.out.traps # <<>>

\* Compiled code executes memory.grow.
GrowMemory ==
    \E deltaPages \in Deltas :
        LET out == _growMemory(Enter(numPages), deltaPages)
        IN  /\ ~Trapped
            /\ grows + Len(out.grown) <= MaxGrows
            /\ numPages' = out.mem
            /\ grows' = grows + Len(out.grown)
            /\ last' = [NoCall EXCEPT !.op = "growMemory", !.before = numPages,
                                      !.delta = deltaPages, !.out = out]
            /\ UNCHANGED <<table, threads, granted, indentLevel, debugLog>>

\* Compiled code executes memory.size.
CurrentMemory ==
    LET out == _currentMemory(Enter(numPages))
    IN  /\ ~Trapped
        /\ numPages' = out.mem
        /\ last' = [NoCall EXCEPT !.op = "currentMemory", !.before = numPages,
                                  !.out = out]
        /\ UNCHANGED <<table, grows, threads, granted, indentLevel, debugLog>>

\* Compiled code executes a trapping truncation to a signed integer.
FloatToSignedInt ==
    \E bits \in {32, 64}, limbs \in {I32Limbs, I64Limbs} :
        \E source \in FloatsOf(bits) :
            /\ ~Trapped
            /\ last' = [NoCall EXCEPT !.op = "floatToSignedInt", !.before = numPages,
                                      !.source = source, !.sourceBits = bits,
                                      !.limbs = limbs,
                                      !.out = floatToSignedInt(Enter(numPages), limbs, source)]
            /\ UNCHANGED <<numPages, table, grows, threads, granted, indentLevel, debugLog>>

\* Compiled code executes a trapping truncation to an unsigned integer.
FloatToUnsignedInt ==
    \E bits \in {32, 64}, limbs \in {I32Limbs, I64Limbs} :
        \E source \in FloatsOf(bits) :
            /\ ~Trapped
            /\ last' = [NoCall EXCEPT !.op = "floatToUnsignedInt", !.before = numPages,
                                      !.source = source, !.sourceBits = bits,
                                      !.limbs = limbs,
                                      !.out = floatToUnsignedInt(Enter(numPages), limbs, source)]
            /\ UNCHANGED <<numPages, table, grows, threads, granted, indentLevel, debugLog>>

\* Compiled code executes an integer division by zero.
DivideByZeroTrap ==
    /\ ~Trapped
    /\ last' = [NoCall EXCEPT !.op = "divideByZeroTrap", !.before = numPages,
                              !.out = divideByZeroTrap(Enter(numPages))]
    /\ UNCHANGED <<numPages, table, grows, threads, granted, indentLevel, debugLog>>

\* Compiled code executes unreachable.
UnreachableTrap ==
    /\ ~Trapped
    /\ last' = [NoCall EXCEPT !.op = "unreachableTrap", !.before = numPages,
                              !.out = unreachableTrap(Enter(numPages))]
    /\ UNCHANGED <<numPages, table, grows, threads, granted, indentLevel, debugLog>>

\* Compiled code executes call_indirect.
CallIndirect ==
    \E index \in -1..(TableSize + 1), expectedSignature \in Signatures :
        /\ ~Trapped
        /\ last' = [NoCall EXCEPT !.op = "callIndirect", !.before = numPages,
                                  !.index = index, !.expected = expectedSignature,
                                  !.out = callIndirect(Enter(numPages), table, index,
                                                       expectedSignature)]
        /\ UNCHANGED <<numPages, table, grows, threads, granted, indentLevel, debugLog>>

\* Integers that go through a conversion to float and back.  32-bit: 0, 1,
\* 2^24, 2^24 + 1, 2^24 + 3, 2^31 - 128, 2^31 - 65, 2^31 - 64, 2^31 - 1, 2^31,
\* 2^31 + 1, 2^31 + 128, 2^32 - 256, 2^32 - 129, 2^32 - 128 and 2^32 - 1.
\* 64-bit: 0, 1, 2^24 + 1, 2^32 - 1, 2^53, 2^53 + 1, 2^63 - 2^39,
\* 2^63 - 1024, 2^63 - 512, 2^63 - 1, 2^63, 2^63 + 1, 2^63 + 1024,
\* 2^64 - 2^40, 2^64 - 2048, 2^64 - 1024 and 2^64 - 1.
Integers32 ==
    {<<0, 0>>, <<1, 0>>, <<0, 256>>, <<1, 256>>, <<3, 256>>,
     <<65408, 32767>>, <<65471, 32767>>, <<65472, 32767>>, <<65535, 32767>>,
     <<0, 32768>>, <<1, 32768>>, <<128, 32768>>,
     <<65280, 65535>>, <<65407, 65535>>, <<65408, 65535>>, <<65535, 65535>>}
Integers64 ==
    {<<0, 0, 0, 0>>, <<1, 0, 0, 0>>, <<1, 256, 0, 0>>, <<65535, 65535, 0, 0>>,
     <<0, 0, 0, 32>>, <<1, 0, 0, 32>>,
     <<0, 0, 65408, 32767>>, <<64512, 65535, 65535, 32767>>,
     <<65024, 65535, 65535, 32767>>, <<65535, 65535, 65535, 32767>>,
     <<0, 0, 0, 32768>>, <<1, 0, 0, 32768>>, <<1024, 0, 0, 32768>>,
     <<0, 0, 65280, 65535>>, <<63488, 65535, 65535, 65535>>,
     <<64512, 65535, 65535, 65535>>, <<65535, 65535, 65535, 65535>>}
IntegersOf(limbs) == IF limbs = I32Limbs THEN Integers32 ELSE Integers64

\* Significand bits of a float32 and of a float64, the implicit bit counted.
Precision(bits) == numSignificandBits(bits) + 1

\* Compiled code converts a signed integer to a float and the float back
\* with the trapping truncation.
RoundTripSigned ==
    \E bits \in {32, 64}, limbs \in {I32Limbs, I64Limbs} :
        \E integer \in IntegersOf(limbs) :
            LET source == convertIntToFloat(integer, TRUE, Precision(bits))
            IN  /\ ~Trapped
                /\ last' = [NoCall EXCEPT !.op = "floatToSignedInt", !.before = numPages,
                                          !.integer = integer,
                                          !.source = source, !.sourceBits = bits,
                                          !.limbs = limbs,
                                          !.out = floatToSignedInt(Enter(numPages), limbs, source)]
                /\ UNCHANGED <<numPages, table, grows, threads, granted, indentLevel, debugLog>>

\* The same with an unsigned integer.
RoundTripUnsigned ==
    \E bits \in {32, 64}, limbs \in {I32Limbs, I64Limbs} :
        \E integer \in IntegersOf(limbs) :
            LET source == convertIntToFloat(integer, FALSE, Precision(bits))
            IN  /\ ~Trapped
                /\ last' = [NoCall EXCEPT !.op = "floatToUnsignedInt", !.before = numPages,
                                          !.integer = integer,
                                          !.source = source, !.sourceBits = bits,
                                          !.limbs = limbs,
                                          !.out = floatToUnsignedInt(Enter(numPages), limbs, source)]
                /\ UNCHANGED <<numPages, table, grows, threads, granted, indentLevel, debugLog>>

\* Integers through a float and back.
NextRoundTrip ==
    \/ RoundTripSigned
    \/ RoundTripUnsigned

\* Functions the debug hooks are called for, by FunctionInstance::debugName.
DebugNames == {"f", "g"}

\* The depth counter and the log as the hooks take them.
DebugState == [indentLevel |-> indentLevel, debugLog |-> debugLog]

\* Instrumented code enters a function.
DebugEnterFunction ==
    \E debugName \in DebugNames :
        LET d == debugEnterFunction(DebugState, debugName)
        IN  /\ Len(debugLog) < MaxDebugCalls
            /\ indentLevel' = d.indentLevel
            /\ debugLog' = d.debugLog
            /\ UNCHANGED <<numPages, table, grows, last, threads, granted>>

\* Instrumented code leaves a function.
DebugExitFunction ==
    \E debugName \in DebugNames :
        LET d == debugExitFunction(DebugState, debugName)
        IN  /\ Len(debugLog) < MaxDebugCalls
            /\ indentLevel' = d.indentLevel
            /\ debugLog' = d.debugLog
            /\ UNCHANGED <<numPages, table, grows, last, threads, granted>>

\* Instrumented code executes a debug break.
DebugBreak ==
    LET d == debugBreak(DebugState)
    IN  /\ Len(debugLog) < MaxDebugCalls
        /\ indentLevel' = d.indentLevel
        /\ debugLog' = d.debugLog
        /\ UNCHANGED <<numPages, table, grows, last, threads, granted>>

\* The debug hooks on one call stack.
NextDebug ==
    \/ DebugEnterFunction
    \/ DebugExitFunction
    \/ DebugBreak

\* A memory within its ceiling and a table as instantiation left it, nothing
\* logged yet.
InitDebug ==
    /\ numPages \in {Word(1, PtrLimbs), MaxPagesPtr}
    /\ table \in [1..TableSize -> Elements]
    /\ grows = 0
    /\ last = NoCall
    /\ threads = NoThreads
    /\ granted = ZeroExtend(numPages, MathLimbs)
    /\ indentLevel = Word(0, PtrLimbs)
    /\ debugLog = <<>>

\* No operation has run yet.  The float intrinsics keep no state, so a call
\* after another one reaches nothing that a first call does not.
Fresh == last = NoCall

\* Compiled code executes a float min or max.
FloatMin ==
    \E width \in {32, 64} :
        \E left \in PatternsOf(width), right \in PatternsOf(width) :
            /\ Fresh
            /\ last' = [NoCall EXCEPT !.op = "floatMin", !.before = numPages,
                                      !.left = left, !.right = right,
                                      !.out = floatMin(Enter(numPages), left, right)]
            /\ UNCHANGED <<numPages, table, grows, threads, granted, indentLevel, debugLog>>

FloatMax ==
    \E width \in {32, 64} :
        \E left \in PatternsOf(width), right \in PatternsOf(width) :
            /\ Fresh
            /\ last' = [NoCall EXCEPT !.op = "floatMax", !.before = numPages,
                                      !.left = left, !.right = right,
                                      !.out = floatMax(Enter(numPages), left, right)]
            /\ UNCHANGED <<numPages, table, grows, threads, granted, indentLevel, debugLog>>

\* Compiled code executes a float ceil, floor, trunc or nearest.
FloatCeil ==
    \E width \in {32, 64} :
        \E value \in PatternsOf(width) :
            /\ Fresh
            /\ last' = [NoCall EXCEPT !.op = "floatCeil", !.before = numPages,
                                      !.left = value,
                                      !.out = floatCeil(Enter(numPages), value)]
            /\ UNCHANGED <<numPages, table, grows, threads, granted, indentLevel, debugLog>>

FloatFloor ==
    \E width \in {32, 64} :
        \E value \in PatternsOf(width) :
            /\ Fresh
            /\ last' = [NoCall EXCEPT !.op = "floatFloor", !.before = numPages,
                                      !.left = value,
                                      !.out = floatFloor(Enter(numPages), value)]
            /\ UNCHANGED <<numPages, table, grows, threads, granted, indentLevel, debugLog>>

FloatTrunc ==
    \E width \in {32, 64} :
        \E value \in PatternsOf(width) :
            /\ Fresh
            /\ last' = [NoCall EXCEPT !.op = "floatTrunc", !.before = numPages,
                                      !.left = value,
                                      !.out = floatTrunc(Enter(numPages), value)]
            /\ UNCHANGED <<numPages, table, grows, threads, granted, indentLevel, debugLog>>

FloatNearest ==
    \E width \in {32, 64} :
        \E value \in PatternsOf(width) :
            /\ Fresh
            /\ last' = [NoCall EXCEPT !.op = "floatNearest", !.before = numPages,
                                      !.left = value,
                                      !.out = floatNearest(Enter(numPages), value)]
            /\ UNCHANGED <<numPages, table, grows, threads, granted, indentLevel, debugLog>>

\* The float intrinsics that never trap.
NextFloats ==
    \/ FloatMin
    \/ FloatMax
    \/ FloatCeil
    \/ FloatFloor
    \/ FloatTrunc
    \/ FloatNearest

\* The memory intrinsics on one call stack.
Next ==
    \/ GrowMemory
    \/ CurrentMemory

\* The intrinsics that may trap, on one call stack.  They share no state with
\* the memory intrinsics.
NextTraps ==
    \/ FloatToSignedInt
    \/ FloatToUnsignedInt
    \/ DivideByZeroTrap
    \/ UnreachableTrap
    \/ CallIndirect

\* deltaPages operands of the concurrent call stacks: 1 and 2.
ConcurrentDeltas == {Word(1, I32Limbs), Word(2, I32Limbs)}

\* Call stack t enters _growMemory and executes its if: it reads numPages and
\* either returns -1 or goes on to the else.
GrowCheck(t) ==
    \E deltaPages \in ConcurrentDeltas :
        LET checked == _growMemoryCheck(Intrinsic(Enter(numPages), "growMemory"),
                                        deltaPages)
        IN  /\ threads[t].pc = "idle"
            /\ threads[t].calls < MaxThreadCalls
            /\ threads' = [threads EXCEPT
                    ![t].pc = IF checked.live THEN "grow" ELSE "idle",
                    ![t].calls = IF checked.live THEN @ ELSE @ + 1,
                    ![t].delta = deltaPages,
                    ![t].ret = checked.ret]
            /\ UNCHANGED <<numPages, table, grows, last, granted, indentLevel, debugLog>>

\* Call stack t executes the else of _growMemory: the collaborator grows the
\* memory as it is now, in one step, and the call returns.
GrowCall(t) ==
    LET out == _growMemoryGrow(Intrinsic(Enter(numPages), "growMemory"),
                               threads[t].delta)
    IN  /\ threads[t].pc = "grow"
        /\ numPages' = out.mem
        /\ threads' = [threads EXCEPT
                ![t].pc = "idle",
                ![t].calls = @ + 1,
                ![t].held = numPages,
                ![t].ret = out.ret]
        /\ granted' = AddW(granted, ZeroExtend(threads[t].delta, MathLimbs))
        /\ UNCHANGED <<table, grows, last, indentLevel, debugLog>>

\* growMemory on call stacks that share the memory and run on their own
\* threads.
NextConcurrent ==
    \E t \in 1..NumThreads :
        \/ GrowCheck(t)
        \/ GrowCall(t)

Spec == Init /\ [][Next]_vars

SpecConcurrent == Init /\ [][NextConcurrent]_vars

SpecRecorded == InitRecorded /\ [][Next]_vars

SpecTraps == InitTraps /\ [][NextTraps]_vars

SpecFloats == InitFloats /\ [][NextFloats]_vars

SpecRoundTrip == InitFloats /\ [][NextRoundTrip]_vars

SpecDebug == InitDebug /\ [][NextDebug]_vars

(***************************************************************************)
(* Properties of linear memory.  deltaPages is the guest's i32 operand of  *)
(* memory.grow, a page count: its value is the unsigned one.               *)
(***************************************************************************)
MaxPagesMath == Word(MaxPages, MathLimbs)

\* currentPages + deltaPages of a growMemory call, without wrap-around.
ExactSum(c) ==
    AddW(ZeroExtend(c.before, MathLimbs), ZeroExtend(c.delta, MathLimbs))

\* The growth asked for would leave more than 65536 pages.
WouldExceed(c) == Gt(ExactSum(c), MaxPagesMath)

\* The call returned v to its caller and raised nothing.
Returned(c, v) ==
    /\ c.out.returned
    /\ c.out.ret = v
    /\ c.out.traps = <<>>

\* The call failed with the sentinel: no trap, no call of the collaborator,
\* the page count as it was.
Rejected(c) ==
    /\ Returned(c, MinusOne32)
    /\ c.out.grown = <<>>
    /\ c.out.mem = c.before

\* C1: a growMemory call with currentPages + deltaPages > 65536 returns -1,
\* does not trap, does not call the growth collaborator and leaves the page
\* count unchanged.
C1_RejectsAboveCeiling ==
    (last.op = "growMemory" /\ WouldExceed(last))
        => (Rejected(last) /\ numPages = last.before)

\* C2: a growMemory call with currentPages + deltaPages <= 65536 returns the
\* page count held before the call, a non-negative value, and leaves the
\* previous count plus deltaPages; from 0 by 1 it returns 0 and leaves 1 page;
\* by 0 it returns the current count and changes nothing.
C2_GrowsWithinCeiling ==
    (last.op = "growMemory" /\ ~WouldExceed(last))
        => /\ Returned(last, Truncate(last.before, I32Limbs))
           /\ ZeroExtend(last.out.ret, PtrLimbs) = last.before
           /\ ToInt32(last.out.ret) >= 0
           /\ ZeroExtend(numPages, MathLimbs) = ExactSum(last)
           /\ (last.before = Word(0, PtrLimbs) /\ last.delta = Word(1, I32Limbs))
                 => (ToInt32(last.out.ret) = 0 /\ numPages = Word(1, PtrLimbs))
           /\ (last.delta = Word(0, I32Limbs)) => numPages = last.before

\* A growth from 65535 pages by 1 has been made: it returned 65535 and left
\* 65536 pages.
C2_Witness ==
    /\ last.op = "growMemory"
    /\ last.before = Word(MaxPages - 1, PtrLimbs)
    /\ last.delta = Word(1, I32Limbs)
    /\ numPages = MaxPagesPtr
    /\ ToInt32(last.out.ret) = MaxPages - 1

\* C3: from a page count of at most 65536, after any growMemory calls (any
\* 32-bit deltaPages) and currentMemory calls of one call stack the page count
\* is at most 65536, and a growth that would exceed the ceiling is rejected:
\* the count stays as it was, it is not set to 65536.
C3_NeverAboveCeiling ==
    /\ Le(numPages, MaxPagesPtr)
    /\ (last.op = "growMemory" /\ WouldExceed(last))
          => (Rejected(last) /\ numPages = last.before)

\* C5: growMemory on a memory whose recorded page count is above 65536 returns
\* -1 for every deltaPages and does not call the growth collaborator.
C5_OverflowedCountRejected ==
    (last.op = "growMemory" /\ Gt(last.before, MaxPagesPtr))
        => (Returned(last, MinusOne32) /\ last.out.grown = <<>>)

\* C4: growMemory calls of concurrent call stacks on one memory behave as if
\* they excluded each other: the page count never exceeds 65536, no growth is
\* lost, a call that succeeds returns the page count held just before its own
\* growth, and that count passes the ceiling test with the call's deltaPages
\* (no growth of another call stack came between the test and the growth).
C4_MutuallyExclusiveGrowth ==
    /\ Le(numPages, MaxPagesPtr)
    /\ ZeroExtend(numPages, MathLimbs) = granted
    /\ \A t \in 1..NumThreads :
          threads[t].ret \notin {<<>>, MinusOne32}
              => /\ ZeroExtend(threads[t].ret, PtrLimbs) = threads[t].held
                 /\ ~WouldExceed([before |-> threads[t].held,
                                  delta |-> threads[t].delta])

\* What one currentMemory call must have done.
CurrentMemoryResult ==
    last.op = "currentMemory"
        => /\ last.out.returned
           /\ last.out.traps = <<>>
           /\ numPages = last.before
           /\ Le(last.before, MaxPagesPtr)
                 => ZeroExtend(last.out.ret, PtrLimbs) = last.before
           /\ Gt(last.before, MaxPagesPtr) => last.out.ret = MinusOne32

\* currentMemory called right after a growMemory that succeeded returns the
\* value growMemory returned plus deltaPages (as a 32-bit result, and exactly
\* when the sum is within the ceiling).
CurrentAfterGrow ==
    (last.op = "growMemory" /\ last.out.ret # MinusOne32 /\ last'.op = "currentMemory")
        => /\ last'.out.ret = AddW(last.out.ret, last.delta)
           /\ ~WouldExceed(last)
                 => ZeroExtend(last'.out.ret, MathLimbs) = ExactSum(last)

\* C6: currentMemory returns the page count when it is at most 65536, -1 when
\* the recorded count is above 65536, never traps and never changes the
\* memory; right after a successful growMemory it returns the previous count
\* plus the delta.
C6_CurrentMemory == []CurrentMemoryResult /\ [][CurrentAfterGrow]_vars

\* currentMemory has been called on a memory grown to exactly 65536 pages and
\* returned 65536.
C6_Witness ==
    /\ last.op = "currentMemory"
    /\ grows > 0
    /\ last.before = MaxPagesPtr
    /\ ToInt32(last.out.ret) = MaxPages

(***************************************************************************)
(* Properties of the indirect-call validator.                              *)
(***************************************************************************)
\* The call raised exactly that cause and returned nothing.
Trap(c, cause) ==
    /\ c.out.traps = <<cause>>
    /\ ~c.out.returned
    /\ ~c.out.live

\* C7: an indirect call at an in-range index traps with undefinedTableElement
\* when the element is unfilled, whatever its signature; with
\* indirectCallSignatureMismatch when it is filled and its signature differs
\* from the expected one; and when it is filled with the expected signature
\* the validator raises nothing and does nothing.
C7_IndirectCallOutcome ==
    (last.op = "callIndirect" /\ InRange(table, last.index))
        => LET element == table[last.index + 1]
           IN  /\ element.value = nullptr => Trap(last, undefinedTableElement)
               /\ (element.value # nullptr /\ element.type # last.expected)
                     => Trap(last, indirectCallSignatureMismatch_)
               /\ (element.value # nullptr /\ element.type = last.expected)
                     => /\ last.out.traps = <<>>
                        /\ last.out.called = <<>>
                        /\ ~last.out.returned
                        /\ last.out.live

\* An indirect call has reached an unfilled element that carries the expected
\* signature, and trapped with undefinedTableElement.
C7_Witness ==
    /\ last.op = "callIndirect"
    /\ InRange(table, last.index)
    /\ table[last.index + 1].value = nullptr
    /\ table[last.index + 1].type = last.expected
    /\ Trap(last, undefinedTableElement)

\* C8: an indirect call at an index outside the table traps with
\* undefinedTableElement without reading a table element; no element outside
\* the table is ever read.
C8_OutOfRangeIndex ==
    last.op = "callIndirect"
        => /\ \A i \in last.out.reads : InRange(table, i)
           /\ ~InRange(table, last.index)
                 => /\ Trap(last, undefinedTableElement)
                    /\ last.out.reads = {}

\* An indirect call has been made at the index one past the last element.
C8_Witness ==
    /\ last.op = "callIndirect"
    /\ last.index = Len(table)
    /\ last.out.called = <<"indirectCallIndexOutOfBounds">>
    /\ Trap(last, undefinedTableElement)

(***************************************************************************)
(* Properties of the trapping conversions.                                 *)
(***************************************************************************)
Conversions == {"floatToSignedInt", "floatToUnsignedInt"}

\* Whether the truncation toward zero of v is a value of the destination type:
\* within [-2^(w-1), 2^(w-1) - 1] when signed, [0, 2^w - 1] when not.
TruncationFits(v, limbs, signed) ==
    /\ v.kind = "fin"
    /\ IF signed
       THEN IF v.neg THEN Le(v.whole, Pow2(16 * limbs - 1, MathLimbs))
                     ELSE Lt(v.whole, Pow2(16 * limbs - 1, MathLimbs))
       ELSE /\ (~v.neg \/ v.whole = Word(0, MathLimbs))
            /\ Lt(v.whole, Pow2(16 * limbs, MathLimbs))

\* Whether the integer a result word holds is the truncation toward zero of v.
IsTruncationOf(ret, signed, v) ==
    LET negative == signed /\ TopBit(ret)
        magnitude == ZeroExtend(IF negative THEN Negate(ret) ELSE ret, MathLimbs)
    IN  /\ magnitude = v.whole
        /\ negative <=> (v.neg /\ v.whole # Word(0, MathLimbs))

\* C9: each floatToSignedInt / floatToUnsignedInt variant traps with
\* invalidFloatOperation on a NaN, traps with
\* integerDivideByZeroOrIntegerOverflow on any other input whose truncation
\* toward zero the destination type does not hold, and returns the truncation
\* toward zero of every other input.
C9_TrappingConversion ==
    last.op \in Conversions
        => LET signed == last.op = "floatToSignedInt"
               fits == TruncationFits(last.source, last.limbs, signed)
           IN  /\ IsNaN(last.source) => Trap(last, invalidFloatOperation)
               /\ (~IsNaN(last.source) /\ ~fits)
                     => Trap(last, integerDivideByZeroOrIntegerOverflow)
               /\ (~IsNaN(last.source) /\ fits)
                     => /\ last.out.returned
                        /\ last.out.traps = <<>>
                        /\ Len(last.out.ret) = last.limbs
                        /\ IsTruncationOf(last.out.ret, signed, last.source)

\* C10: an invocation of an intrinsic ends in exactly one way, a value
\* returned or one cause raised, never both; once a cause is raised nothing
\* more of the invocation runs, so floatToInt casts no NaN and no value out of
\* range.
C10_OneOutcome ==
    last.out.called # <<>>
        => /\ Len(last.out.called) = 1
           /\ ~last.out.live
           /\ \/ (last.out.returned /\ last.out.traps = <<>>)
              \/ (~last.out.returned /\ Len(last.out.traps) = 1 /\ last.out.ret = <<>>)
           /\ last.out.traps # <<>> => last.out.casts = 0
           /\ last.op \in Conversions
                 => /\ last.out.returned <=> last.out.casts = 1
                    /\ last.out.casts > 0
                          => TruncationFits(last.source, last.limbs,
                                            last.op = "floatToSignedInt")

\* A conversion of a NaN has trapped with invalidFloatOperation, and no cast
\* was made.
C10_Witness ==
    /\ last.op \in Conversions
    /\ IsNaN(last.source)
    /\ Trap(last, invalidFloatOperation)
    /\ last.out.casts = 0

(***************************************************************************)
(* Properties of the float intrinsics that never trap.                     *)
(***************************************************************************)
\* a is before b in the order of the values in which -0.0 is before +0.0.
Below(a, b) ==
    \/ BitsCompare(a, b) < 0
    \/ (BitsCompare(a, b) = 0 /\ a.sign = 1 /\ b.sign = 0)

\* The lesser and the greater of two floats that are not NaN.
Lesser(a, b) == IF Below(b, a) THEN b ELSE a
Greater(a, b) == IF Below(a, b) THEN b ELSE a

NegativeZero(width) == ZeroLike([width |-> width, sign |-> 1])
PositiveZero(width) == ZeroLike([width |-> width, sign |-> 0])

\* C11: for operands of one width that are not NaN, floatMin and floatMax
\* return bit for bit the lesser and the greater operand in the order in
\* which -0.0 is less than +0.0, whichever way round the operands are given:
\* the min of -0.0 and +0.0 is -0.0 and their max is +0.0.
C11_MinMaxOrder ==
    (last.op \in {"floatMin", "floatMax"}
        /\ ~BitsIsNaN(last.left) /\ ~BitsIsNaN(last.right))
        => LET a == last.left
               b == last.right
               zeros == {a, b} = {NegativeZero(a.width), PositiveZero(a.width)}
           IN  IF last.op = "floatMin"
               THEN /\ Returned(last, Lesser(a, b))
                    /\ last.out.ret = floatMin(Enter(numPages), b, a).ret
                    /\ zeros => last.out.ret = NegativeZero(a.width)
               ELSE /\ Returned(last, Greater(a, b))
                    /\ last.out.ret = floatMax(Enter(numPages), b, a).ret
                    /\ zeros => last.out.ret = PositiveZero(a.width)

\* floatMin of +0.0 and -0.0, in that order, has returned -0.0.
C11_Witness ==
    /\ last.op = "floatMin"
    /\ last.left = PositiveZero(64)
    /\ last.right = NegativeZero(64)
    /\ Returned(last, NegativeZero(64))

FloatOps ==
    {"floatMin", "floatMax", "floatCeil", "floatFloor", "floatTrunc", "floatNearest"}

\* The NaN operand a call answers with: the first operand when it is a NaN,
\* else the second operand of floatMin and floatMax.
ChosenNaN(c) == IF BitsIsNaN(c.left) THEN c.left ELSE c.right

HasNaNOperand(c) ==
    \/ BitsIsNaN(c.left)
    \/ (c.op \in {"floatMin", "floatMax"} /\ BitsIsNaN(c.right))

\* C12: given a NaN operand, floatMin, floatMax, floatCeil, floatFloor,
\* floatTrunc and floatNearest return a NaN whose top significand bit is set
\* and whose sign and other payload bits are those of the chosen NaN operand,
\* the first operand when both are NaN, and raise no trap.
C12_QuietsNaN ==
    (last.op \in FloatOps /\ HasNaNOperand(last))
        => LET chosen == ChosenNaN(last)
               result == last.out.ret
               top == numSignificandBits(chosen.width)
           IN  /\ last.out.returned
               /\ last.out.traps = <<>>
               /\ BitsIsNaN(result)
               /\ result.width = chosen.width
               /\ result.exponent = maxExponentBits(chosen.width)
               /\ result.significand[top] = 1
               /\ result.sign = chosen.sign
               /\ \A i \in 1..(top - 1) :
                      result.significand[i] = chosen.significand[i]

\* floatMax of 1.0 and a negative signalling NaN has returned that NaN made
\* quiet, its sign and payload kept.
C12_Witness ==
    /\ last.op = "floatMax"
    /\ ~BitsIsNaN(last.left)
    /\ BitsIsNaN(last.right)
    /\ last.right.sign = 1
    /\ last.right.significand[numSignificandBits(last.right.width)] = 0
    /\ last.out.returned
    /\ last.out.ret = quietNaN(last.right)
    /\ last.out.ret # last.right

(***************************************************************************)
(* Properties of an integer taken through a float and back.                *)
(***************************************************************************)
\* The magnitude of the integer of a round trip, without wrap-around.
MagnitudeOf(c) ==
    LET signed == c.op = "floatToSignedInt"
    IN  ZeroExtend(IF signed /\ TopBit(c.integer) THEN Negate(c.integer)
                                                  ELSE c.integer, MathLimbs)

\* The float type of the round trip holds the integer exactly.
ExactInFloat(c) ==
    \/ MagnitudeOf(c) = Word(0, MathLimbs)
    \/ HighestBit(MagnitudeOf(c)) - LowestBit(MagnitudeOf(c)) < Precision(c.sourceBits)

\* C13: an integer of a destination type that the float type holds exactly,
\* converted to the float and passed through the trapping conversion, comes
\* back unchanged and without a trap; an integer the float type does not hold
\* exactly comes back as the rounded integer when the destination type holds
\* it and traps with integerDivideByZeroOrIntegerOverflow when it does not,
\* as INT32_MAX does through a float32.
C13_RoundTrip ==
    (last.op \in Conversions /\ last.integer # <<>>)
        => LET signed == last.op = "floatToSignedInt"
               fits == TruncationFits(last.source, last.limbs, signed)
           IN  /\ ExactInFloat(last) => Returned(last, last.integer)
               /\ ~ExactInFloat(last)
                     => IF fits
                        THEN /\ last.out.returned
                             /\ last.out.traps = <<>>
                             /\ IsTruncationOf(last.out.ret, signed, last.source)
                        ELSE Trap(last, integerDivideByZeroOrIntegerOverflow)
               /\ (signed /\ last.sourceBits = 32 /\ last.integer = <<Base - 1, HalfBase - 1>>)
                     => Trap(last, integerDivideByZeroOrIntegerOverflow)

\* INT64_MIN has gone through a float32 and come back as INT64_MIN.
C13_Witness ==
    /\ last.op = "floatToSignedInt"
    /\ last.sourceBits = 32
    /\ last.integer = <<0, 0, 0, HalfBase>>
    /\ last.source = FloatInt64Min
    /\ Returned(last, <<0, 0, 0, HalfBase>>)

(***************************************************************************)
(* Properties of the debug hooks.                                          *)
(***************************************************************************)
\* Lines of a kind among the first k lines of the log.
Lines(text, k) == Cardinality({i \in 1..k : debugLog[i].text = text})

\* Every exit so far came after an enter that no earlier exit had matched.
WellNested == \A k \in 1..Len(debugLog) : Lines("EXIT", k) <= Lines("ENTER", k)

Depth == Lines("ENTER", Len(debugLog)) - Lines("EXIT", Len(debugLog))

\* The counter after well-nested calls: enters minus exits, not negative, and
\* 0 at the start and whenever enters and exits are balanced.
DepthCounted ==
    /\ debugLog = <<>> => indentLevel = Word(0, PtrLimbs)
    /\ WellNested
          => /\ Depth >= 0
             /\ indentLevel = Word(Depth, PtrLimbs)
             /\ Depth = 0 => indentLevel = Word(0, PtrLimbs)

\* What one call of a hook does: exactly one line is printed; an enter prints
\* at the old depth and leaves one more, an exit leaves one less and prints at
\* the new depth, a break leaves the depth as it is; memory and table are as
\* before.
HookStep ==
    LET line == debugLog'[Len(debugLog')]
    IN  /\ Len(debugLog') = Len(debugLog) + 1
        /\ \A i \in 1..Len(debugLog) : debugLog'[i] = debugLog[i]
        /\ line.text = "ENTER"
              => /\ line.level = indentLevel
                 /\ indentLevel' = AddW(indentLevel, Word(1, PtrLimbs))
        /\ line.text = "EXIT"
              => /\ line.level = indentLevel'
                 /\ indentLevel = AddW(indentLevel', Word(1, PtrLimbs))
        /\ line.text = "debugBreak" => indentLevel' = indentLevel
        /\ numPages' = numPages
        /\ table' = table

\* C14: on one call stack the depth counter starts at 0; debugEnterFunction
\* logs and then adds one, debugExitFunction takes one off and then logs,
\* debugBreak leaves it; after calls in which every exit follows an unmatched
\* enter the counter is enters minus exits, never negative, and back at 0
\* when they are balanced; no hook changes a memory or a table element.
C14_DepthCounter == []DepthCounted /\ [][HookStep]_vars

\* Two nested functions have been entered and left, and the counter is back
\* at 0.
C14_Witness ==
    /\ Len(debugLog) = 4
    /\ [i \in 1..4 |-> debugLog[i].text] = <<"ENTER", "ENTER", "EXIT", "EXIT">>
    /\ [i \in 1..4 |-> debugLog[i].level] =
           <<Word(0, PtrLimbs), Word(1, PtrLimbs), Word(1, PtrLimbs), Word(0, PtrLimbs)>>
    /\ indentLevel = Word(0, PtrLimbs)

====
